---- MODULE Spec2Model ----
(***************************************************************************)
(* Task lifecycle manager of trackinglog: TaskMgtAgent.setup and           *)
(* TaskMgtAgent._clean_old_tasks (task_manager/task_manager.py), acting on *)
(* the task root directory and its __task_config.json record.              *)
(*                                                                         *)
(* Time is counted in ticks (whole seconds of the wall clock, scaled       *)
(* down); a day is TicksPerDay ticks.  A folder name is a record           *)
(* [shape, t]: the shape is the textual pattern of the name and t the      *)
(* point in time its digits spell.                                         *)
(***************************************************************************)
EXTENDS Integers, Sequences, FiniteSets, TLC

\* ----------------------------------------------------------------- bounds
\* last tick of the clock
MaxTime == 2
\* largest task_num_limit a caller passes
MaxLimit == 1
\* largest task_expiration_date, in days, a caller passes
MaxDays == 1
\* most folders in the task root that no call has created
MaxForeign == 1

\* A day in ticks: 86400 seconds, scaled down.
TicksPerDay == 2
Procs == {"p1", "p2"}

\* ------------------------------------------------------- python values
PyNone == [kind |-> "none", v |-> 0]
PyInt(n) == [kind |-> "int", v |-> n]
PyStr(n) == [kind |-> "str", v |-> n]
PyText == [kind |-> "text", v |-> 0]

\* bool(x) of an Optional[str]/int policy value: None, 0 and "" are falsy;
\* every non-empty string, "0" included, is truthy.
Truthy(x) == \/ x.kind = "int" /\ x.v # 0
             \/ x.kind = "str"
             \/ x.kind = "text"

\* int(x): a number, or ValueError for a string that spells no integer.
IntRaises(x) == x.kind = "text"
IntOf(x) == x.v

\* ------------------------------------------------------- folder names
DefaultFormat == "%y%m%d_%H%M%S"
DayFormat == "%y%m%d"
Formats == {DefaultFormat, DayFormat}

Ticks == 0..MaxTime
Midnight(t) == (t \div TicksPerDay) * TicksPerDay

PyFalse == [shape |-> "False", t |-> 0]
Word == [shape |-> "word", t |-> 0]

Short == [shape |-> "ymd_hms_short", t |-> 0]

Names == {[shape |-> "ymd_hms", t |-> t] : t \in Ticks}
         \cup {[shape |-> "ymd", t |-> Midnight(t)] : t \in Ticks}
         \cup {Word, Short}

\* datetime.strftime(fmt): zero-padded fields; a format without the time of
\* day drops it.
strftime(t, fmt) ==
    IF fmt = DefaultFormat THEN [shape |-> "ymd_hms", t |-> t]
    ELSE [shape |-> "ymd", t |-> Midnight(t)]

\* datetime.strptime(name, fmt) succeeds: the name matches the pattern.  The
\* seconds field may be written with one digit (240101_00000), so two names
\* can spell the same point in time.
Parses(name, fmt) ==
    IF fmt = DefaultFormat THEN name.shape \in {"ymd_hms", "ymd_hms_short"}
    ELSE name.shape = "ymd"

\* _extract_date_from_folder: the parsed timestamp of a name that parses.
extract_date_from_folder(name, fmt) == name.t

\* ------------------------------------------------------- python lists
Range(s) == {s[i] : i \in 1..Len(s)}

Min2(a, b) == IF a < b THEN a ELSE b
Max2(a, b) == IF a > b THEN a ELSE b

\* The index a slice bound k denotes in a list of length n.
SliceIndex(k, n) == IF k < 0 THEN Max2(n + k, 0) ELSE Min2(k, n)

\* A bound of 0 read as no bound: nothing is cut off.
SliceFrom_ZeroIsNone(s, k) ==
    IF k = 0 THEN <<>> ELSE SubSeq(s, SliceIndex(k, Len(s)) + 1, Len(s))

\* s[k:]
SliceFrom(s, k) == SubSeq(s, SliceIndex(k, Len(s)) + 1, Len(s))
\* s[:k]
SliceTo(s, k) == SubSeq(s, 1, SliceIndex(k, Len(s)))

\* list.sort(reverse=True, key=timestamp) of the listing of S: newest first;
\* names with equal timestamps stay in the order os.listdir returned them,
\* which is arbitrary.
RECURSIVE SortedNewestFirst(_, _)
SortedNewestFirst(S, fmt) ==
    IF S = {} THEN {<<>>}
    ELSE UNION {{<<x>> \o r : r \in SortedNewestFirst(S \ {x}, fmt)} :
                x \in {y \in S : \A z \in S :
                         extract_date_from_folder(y, fmt) >= extract_date_from_folder(z, fmt)}}

\* ------------------------------------------------------- state
SubFolders == {"tmp", "tmp/cache", "var", "result"}

NoConfig == [state |-> "absent", task_expiration_date |-> PyNone,
             task_num_limit |-> PyNone, task_folder_format |-> ""]
BrokenConfig == [state |-> "corrupt", task_expiration_date |-> PyNone,
                 task_num_limit |-> PyNone, task_folder_format |-> ""]
ConfigData(e, n, f) == [state |-> "valid", task_expiration_date |-> e,
                        task_num_limit |-> n, task_folder_format |-> f]

NoArgs == [task_expiration_date |-> PyNone, task_num_limit |-> PyNone,
           task_folder_format |-> "", resume_task |-> PyFalse]
NoSelf == [task_expiration_date |-> PyNone, task_num_limit |-> PyNone,
           task_folder_format |-> "", curr_task |-> PyFalse]

VARIABLES
    now,                \* the wall clock
    fs,                 \* task root: folder name -> sub-folders it contains
    config,             \* content of __task_config.json
    pc,                 \* per call: position in setup/_clean_old_tasks
    args,               \* per call: arguments of setup
    self,               \* per call: fields of the TaskMgtAgent
    valid_folders,      \* per call: local of _clean_old_tasks
    folders_to_delete,  \* per call: rest of the list the count-limit loop walks
    expired_folders,    \* per call: rest of the list the expiration loop walks
    cutoff_date,        \* per call: local of _clean_old_tasks, in half ticks
    err,                \* per call: exception that ended the call, "" if none
    before,             \* per call: task root, record and clock when the call started
    removed,            \* per call: folders the call has removed so far
    last,               \* per caller: what its call before this one ended with
    overlapped          \* per call: another call was under way at some time during it

vars == <<now, fs, config, pc, args, self, valid_folders, folders_to_delete,
          expired_folders, cutoff_date, err, before, removed, last, overlapped>>

\* line 77: the sub-directories of the task root
folders == DOMAIN fs

Rmtree(tree, name) == [n \in (DOMAIN tree) \ {name} |-> tree[n]]
Makedirs(tree, name) ==
    [n \in (DOMAIN tree) \cup {name} |-> IF n \in DOMAIN tree THEN tree[n] ELSE {}]

\* cutoff_date before line 107 has run
Unset == -100

NoSnapshot == [folders |-> {}, config |-> NoConfig, now |-> 0]

\* No call of the caller came before this one.
NoLast == [ran |-> FALSE, curr_task |-> PyFalse, cutoff_date |-> Unset]

Init ==
    /\ now = 0
    /\ fs = [n \in {} |-> {}]
    /\ config = NoConfig
    /\ pc = [p \in Procs |-> "idle"]
    /\ args = [p \in Procs |-> NoArgs]
    /\ self = [p \in Procs |-> NoSelf]
    /\ valid_folders = [p \in Procs |-> <<>>]
    /\ folders_to_delete = [p \in Procs |-> <<>>]
    /\ expired_folders = [p \in Procs |-> <<>>]
    /\ cutoff_date = [p \in Procs |-> Unset]
    /\ err = [p \in Procs |-> ""]
    /\ before = [p \in Procs |-> NoSnapshot]
    /\ removed = [p \in Procs |-> {}]
    /\ last = [p \in Procs |-> NoLast]
    /\ overlapped = [p \in Procs |-> FALSE]

\* ------------------------------------------------------- inputs
\* What a caller passes: no expiration, a number of days, or the string "0"
\* (a string of days acts as the number it spells, but "0" is truthy and 0 is
\* not); no limit or a number; either format; no resume, a folder of the task
\* root, or a name that is in no task root.
ExpirationInputs == {PyNone, PyStr(0)} \cup {PyInt(d) : d \in 0..MaxDays}
LimitInputs == {PyNone} \cup {PyInt(n) : n \in 0..MaxLimit}
Missing == [shape |-> "ymd_hms", t |-> MaxTime + 1]
ResumeInputs == {PyFalse, Missing} \cup folders

\* ------------------------------------------------------- setup, lines 137-153
\* A call of r is under way.
Busy(r) == pc[r] \notin {"idle", "done", "failed"}

\* The call p starts: it and the calls under way overlap.
Overlaps(p) ==
    [r \in Procs |-> IF r = p THEN \E q \in Procs \ {p} : Busy(q)
                     ELSE overlapped[r] \/ Busy(r)]

\* The requested format wins over the record.
EffectiveFormat_Requested(old_config, task_folder_format) == task_folder_format

\* The format the run works with: the one of the record when a record exists.
EffectiveFormat(old_config, task_folder_format) ==
    IF old_config.state = "valid" /\ old_config.task_folder_format # task_folder_format
    THEN old_config.task_folder_format
    ELSE task_folder_format

\* json.load of the record and the lookup of its "task_folder_format" raise.
LoadRaises(old_config) == old_config.state = "corrupt"

\* The record written before _clean_old_tasks has run.
Setup_PersistFirst(p) ==
    /\ pc[p] = "idle"
    /\ ~LoadRaises(config)
    /\ \E e \in ExpirationInputs, n \in LimitInputs, f \in Formats, r \in ResumeInputs :
        /\ args' = [args EXCEPT ![p] = [task_expiration_date |-> e, task_num_limit |-> n,
                                        task_folder_format |-> f, resume_task |-> r]]
        /\ before' = [before EXCEPT ![p] = [folders |-> folders, config |-> config, now |-> now]]
        /\ pc' = [pc EXCEPT ![p] = "clean"]
        /\ self' = [self EXCEPT ![p] =
                      [task_expiration_date |-> e, task_num_limit |-> n,
                       task_folder_format |-> EffectiveFormat(config, f),
                       curr_task |-> PyFalse]]
        /\ config' = ConfigData(e, n, EffectiveFormat(config, f))
    /\ overlapped' = Overlaps(p)
    /\ UNCHANGED <<now, last, fs, valid_folders, folders_to_delete, expired_folders, cutoff_date,
                   err, removed>>

\* TaskMgtAgent(task_folder_path, data): __init__ reads the arguments and setup
\* reconciles them with the record and stores them in the agent.
Setup(p) ==
    /\ pc[p] = "idle"
    /\ \E e \in ExpirationInputs, n \in LimitInputs, f \in Formats, r \in ResumeInputs :
        /\ args' = [args EXCEPT ![p] = [task_expiration_date |-> e, task_num_limit |-> n,
                                        task_folder_format |-> f, resume_task |-> r]]
        /\ before' = [before EXCEPT ![p] = [folders |-> folders, config |-> config, now |-> now]]
        /\ IF LoadRaises(config)
           THEN /\ pc' = [pc EXCEPT ![p] = "failed"]
                /\ err' = [err EXCEPT ![p] = "JSONDecodeError"]
                /\ UNCHANGED self
           ELSE /\ pc' = [pc EXCEPT ![p] = "clean"]
                /\ self' = [self EXCEPT ![p] =
                              [task_expiration_date |-> e, task_num_limit |-> n,
                               task_folder_format |-> EffectiveFormat(config, f),
                               curr_task |-> PyFalse]]
                /\ UNCHANGED err
    /\ overlapped' = Overlaps(p)
    /\ UNCHANGED <<now, last, fs, config, valid_folders, folders_to_delete, expired_folders, cutoff_date,
                   removed>>

\* ------------------------------------------------------- _clean_old_tasks, lines 76-98
\* The assertion of line 78 left out.
ResumeAsserted_Off(resume_task, listing) == TRUE

\* line 78: assert not resume_task or resume_task in folders
ResumeAsserted(resume_task, listing) ==
    (resume_task = PyFalse) \/ resume_task \in listing

\* Every folder taken as a task folder, whether its name parses or not.
ValidFolders_NoParse(listing, fmt) == listing

\* lines 81-87: the folders whose name parses
ValidFolders(listing, fmt) == {f \in listing : Parses(f, fmt)}

\* line 96: resume_task and any(resume_task == tup[1] for tup in folders_to_delete)
ResumeAmongDeleted(resume_task, to_delete) ==
    resume_task # PyFalse /\ resume_task \in Range(to_delete)

\* line 97: folders_to_delete.remove(resume_task) looks for the name in a list
\* of (timestamp, name, path) tuples; no tuple equals a string, so whenever
\* the call is made it raises ValueError.
RemoveRaises(resume_task, to_delete) == ResumeAmongDeleted(resume_task, to_delete)

ListAndSplit(p) ==
    /\ pc[p] = "clean"
    /\ LET resume_task == args[p].resume_task
           fmt == self[p].task_folder_format
           limit == self[p].task_num_limit
       IN  IF ~ResumeAsserted(resume_task, folders)
           THEN /\ pc' = [pc EXCEPT ![p] = "failed"]
                /\ err' = [err EXCEPT ![p] = "AssertionError"]
                /\ UNCHANGED <<valid_folders, folders_to_delete>>
           ELSE \E sorted \in SortedNewestFirst(ValidFolders(folders, fmt), fmt) :
                IF limit # PyNone
                THEN /\ folders_to_delete' =
                          [folders_to_delete EXCEPT ![p] = SliceFrom(sorted, limit.v)]
                     /\ valid_folders' =
                          [valid_folders EXCEPT ![p] = SliceTo(sorted, limit.v)]
                     /\ IF RemoveRaises(resume_task, SliceFrom(sorted, limit.v))
                        THEN /\ pc' = [pc EXCEPT ![p] = "failed"]
                             /\ err' = [err EXCEPT ![p] = "ValueError"]
                        ELSE /\ pc' = [pc EXCEPT ![p] =
                                         IF SliceFrom(sorted, limit.v) = <<>>
                                         THEN "expire" ELSE "count_rm"]
                             /\ UNCHANGED err
                ELSE /\ valid_folders' = [valid_folders EXCEPT ![p] = sorted]
                     /\ pc' = [pc EXCEPT ![p] = "expire"]
                     /\ UNCHANGED <<folders_to_delete, err>>
    /\ UNCHANGED <<now, last, overlapped, fs, config, args, self, expired_folders, cutoff_date, before, removed>>

\* lines 99-101: one turn of the loop over folders_to_delete
DeleteOldFolder(p) ==
    /\ pc[p] = "count_rm"
    /\ folders_to_delete[p] # <<>>
    /\ Head(folders_to_delete[p]) \in folders
    /\ fs' = Rmtree(fs, Head(folders_to_delete[p]))
    /\ removed' = [removed EXCEPT ![p] = @ \cup {Head(folders_to_delete[p])}]
    /\ folders_to_delete' = [folders_to_delete EXCEPT ![p] = Tail(@)]
    /\ pc' = [pc EXCEPT ![p] = IF Tail(folders_to_delete[p]) = <<>>
                               THEN "expire" ELSE "count_rm"]
    /\ UNCHANGED <<now, last, overlapped, config, args, self, valid_folders, expired_folders, cutoff_date, err,
                   before>>

\* lines 104-109: the folders of valid_folders older than the cutoff.  The
\* clock is read with its sub-second part (micro); timestamps of names are
\* whole ticks, so everything is compared in half ticks.
ExpirationRuns(task_expiration_date) == Truthy(task_expiration_date)

\* A folder as old as the cutoff counts as expired.
IsExpired_OrEqual(f, fmt, cutoff2, resume_task) ==
    2 * extract_date_from_folder(f, fmt) <= cutoff2 /\ f # resume_task

IsExpired(f, fmt, cutoff2, resume_task) ==
    2 * extract_date_from_folder(f, fmt) < cutoff2 /\ f # resume_task

\* The resumed folder expires like any other.
ExpiredOf_ResumeToo(valid, fmt, cutoff2, resume_task) ==
    LET Test(f) == 2 * extract_date_from_folder(f, fmt) < cutoff2
    IN  SelectSeq(valid, Test)

ExpiredOf(valid, fmt, cutoff2, resume_task) ==
    LET Test(f) == IsExpired(f, fmt, cutoff2, resume_task)
    IN  SelectSeq(valid, Test)

FindExpired(p) ==
    /\ pc[p] = "expire"
    /\ LET e == self[p].task_expiration_date
       IN  IF ~ExpirationRuns(e) \/ IntRaises(e)
           THEN /\ pc' = [pc EXCEPT ![p] = "select"]
                /\ UNCHANGED <<expired_folders, cutoff_date>>
           ELSE \E micro \in {0, 1} :
                LET cutoff2 == 2 * (now - IntOf(e) * TicksPerDay) + micro
                    expired == ExpiredOf(valid_folders[p], self[p].task_folder_format,
                                         cutoff2, args[p].resume_task)
                IN  /\ cutoff_date' = [cutoff_date EXCEPT ![p] = cutoff2]
                    /\ expired_folders' = [expired_folders EXCEPT ![p] = expired]
                    /\ pc' = [pc EXCEPT ![p] = IF expired = <<>> THEN "select" ELSE "exp_rm"]
    /\ UNCHANGED <<now, last, overlapped, fs, config, args, self, valid_folders, folders_to_delete, err,
                   before, removed>>

\* lines 110-112: one turn of the loop over expired_folders
DeleteExpiredFolder(p) ==
    /\ pc[p] = "exp_rm"
    /\ expired_folders[p] # <<>>
    /\ Head(expired_folders[p]) \in folders
    /\ fs' = Rmtree(fs, Head(expired_folders[p]))
    /\ removed' = [removed EXCEPT ![p] = @ \cup {Head(expired_folders[p])}]
    /\ expired_folders' = [expired_folders EXCEPT ![p] = Tail(@)]
    /\ pc' = [pc EXCEPT ![p] = IF Tail(expired_folders[p]) = <<>>
                               THEN "select" ELSE "exp_rm"]
    /\ UNCHANGED <<now, last, overlapped, config, args, self, valid_folders, folders_to_delete, cutoff_date, err,
                   before>>

\* The failure is logged and the loop goes on with the next folder.
RmtreeRaises_Logged(p) ==
    /\ pc[p] \in {"count_rm", "exp_rm"}
    /\ err' = [err EXCEPT ![p] = "OSError"]
    /\ IF pc[p] = "count_rm"
       THEN /\ folders_to_delete' = [folders_to_delete EXCEPT ![p] = Tail(@)]
            /\ pc' = [pc EXCEPT ![p] = IF Tail(folders_to_delete[p]) = <<>>
                                       THEN "expire" ELSE "count_rm"]
            /\ UNCHANGED expired_folders
       ELSE /\ expired_folders' = [expired_folders EXCEPT ![p] = Tail(@)]
            /\ pc' = [pc EXCEPT ![p] = IF Tail(expired_folders[p]) = <<>>
                                       THEN "select" ELSE "exp_rm"]
            /\ UNCHANGED folders_to_delete
    /\ UNCHANGED <<now, last, overlapped, fs, config, args, self, valid_folders, cutoff_date, before, removed>>

\* The record is written on the way out of the failed call.
RmtreeRaises_SavesPolicy(p) ==
    /\ pc[p] \in {"count_rm", "exp_rm"}
    /\ pc' = [pc EXCEPT ![p] = "failed"]
    /\ err' = [err EXCEPT ![p] = "OSError"]
    /\ config' = ConfigData(self[p].task_expiration_date, self[p].task_num_limit,
                            self[p].task_folder_format)
    /\ UNCHANGED <<now, last, overlapped, fs, args, self, valid_folders, folders_to_delete,
                   expired_folders, cutoff_date, before, removed>>

\* shutil.rmtree raises (permission denied, folder in use, folder gone): no
\* handler catches OSError, the call ends with it.
RmtreeRaises(p) ==
    /\ pc[p] \in {"count_rm", "exp_rm"}
    /\ pc' = [pc EXCEPT ![p] = "failed"]
    /\ err' = [err EXCEPT ![p] = "OSError"]
    /\ UNCHANGED <<now, last, overlapped, fs, config, args, self, valid_folders, folders_to_delete,
                   expired_folders, cutoff_date, before, removed>>

\* A folder named after now whether or not a task is resumed.
CurrentTask_AlwaysNew(resume_task, t, fmt) == strftime(t, fmt)

\* lines 117-124 and 156: the resumed folder, or a folder named after now
CurrentTask(resume_task, t, fmt) ==
    IF resume_task # PyFalse THEN resume_task ELSE strftime(t, fmt)

\* The current folder is selected before the expiration step has run.
SelectTask_BeforeExpiration(p) ==
    /\ \/ pc[p] = "expire" /\ self[p].curr_task = PyFalse
       \/ pc[p] = "select"
    /\ LET cur == CurrentTask(args[p].resume_task, now, self[p].task_folder_format)
       IN  /\ self' = [self EXCEPT ![p].curr_task = cur]
           /\ fs' = IF args[p].resume_task # PyFalse THEN fs ELSE Makedirs(fs, cur)
    /\ pc' = [pc EXCEPT ![p] = IF pc[p] = "expire" THEN "expire" ELSE "persist"]
    /\ UNCHANGED <<now, last, overlapped, config, args, valid_folders, folders_to_delete,
                   expired_folders, cutoff_date, err, before, removed>>

SelectTask(p) ==
    /\ pc[p] = "select"
    /\ LET cur == CurrentTask(args[p].resume_task, now, self[p].task_folder_format)
       IN  /\ self' = [self EXCEPT ![p].curr_task = cur]
           /\ fs' = IF args[p].resume_task # PyFalse THEN fs ELSE Makedirs(fs, cur)
    /\ pc' = [pc EXCEPT ![p] = "persist"]
    /\ UNCHANGED <<now, last, overlapped, config, args, valid_folders, folders_to_delete, expired_folders, cutoff_date,
                   err, before, removed>>

\* The record is written only where there is none yet.
PersistConfig_OnlyFirst(p) ==
    /\ pc[p] = "persist"
    /\ config' = IF config.state = "valid" THEN config
                 ELSE ConfigData(self[p].task_expiration_date, self[p].task_num_limit,
                                 self[p].task_folder_format)
    /\ pc' = [pc EXCEPT ![p] = "layout"]
    /\ UNCHANGED <<now, last, overlapped, fs, args, self, valid_folders, folders_to_delete, expired_folders,
                   cutoff_date, err, before, removed>>

\* lines 158-165: the record is overwritten with the policy of this run
PersistConfig(p) ==
    /\ pc[p] = "persist"
    /\ config' = ConfigData(self[p].task_expiration_date, self[p].task_num_limit,
                            self[p].task_folder_format)
    /\ pc' = [pc EXCEPT ![p] = "layout"]
    /\ UNCHANGED <<now, last, overlapped, fs, args, self, valid_folders, folders_to_delete, expired_folders, cutoff_date,
                   err, before, removed>>

\* lines 164-165: open(config_path, "w") truncates the record before json.dump
\* writes it; a process killed in between leaves a record that is no JSON.
PersistKilled(p) ==
    /\ pc[p] = "persist"
    /\ config' = BrokenConfig
    /\ pc' = [pc EXCEPT ![p] = "failed"]
    /\ err' = [err EXCEPT ![p] = "Killed"]
    /\ UNCHANGED <<now, last, overlapped, fs, args, self, valid_folders, folders_to_delete, expired_folders, cutoff_date,
                   before, removed>>

\* TaskFolderStruct(curr_task_folder_path): os.makedirs(..., exist_ok=True) of
\* the four sub-folders, parents included.
\* The task folder is emptied and the layout built in it.
TaskFolderStruct_Fresh(tree, task) == [Makedirs(tree, task) EXCEPT ![task] = SubFolders]

TaskFolderStruct(tree, task) == [Makedirs(tree, task) EXCEPT ![task] = @ \cup SubFolders]

BuildLayout(p) ==
    /\ pc[p] = "layout"
    /\ fs' = TaskFolderStruct(fs, self[p].curr_task)
    /\ pc' = [pc EXCEPT ![p] = "done"]
    /\ UNCHANGED <<now, last, overlapped, config, args, self, valid_folders, folders_to_delete,
                   expired_folders, cutoff_date, err, before, removed>>

\* The constructor has returned or raised; the caller may construct again.
Return(p) ==
    /\ pc[p] \in {"done", "failed"}
    /\ pc' = [pc EXCEPT ![p] = "idle"]
    /\ args' = [args EXCEPT ![p] = NoArgs]
    /\ self' = [self EXCEPT ![p] = NoSelf]
    /\ valid_folders' = [valid_folders EXCEPT ![p] = <<>>]
    /\ folders_to_delete' = [folders_to_delete EXCEPT ![p] = <<>>]
    /\ expired_folders' = [expired_folders EXCEPT ![p] = <<>>]
    /\ cutoff_date' = [cutoff_date EXCEPT ![p] = Unset]
    /\ err' = [err EXCEPT ![p] = ""]
    /\ before' = [before EXCEPT ![p] = NoSnapshot]
    /\ removed' = [removed EXCEPT ![p] = {}]
    /\ last' = [last EXCEPT ![p] = NoLast]
    /\ overlapped' = [overlapped EXCEPT ![p] = FALSE]
    /\ UNCHANGED <<now, fs, config>>

\* ------------------------------------------------------- environment
\* The clock is read on line 107 and on line 121 and nowhere else; time that
\* passes elsewhere in a call shows only at the next of these reads, so the
\* clock advances between calls and between the two reads.
Tick ==
    /\ now < MaxTime
    /\ (\A p \in Procs : pc[p] = "idle") \/ (\E p \in Procs : pc[p] = "select")
    /\ now' = now + 1
    /\ UNCHANGED <<fs, config, pc, args, self, valid_folders, folders_to_delete,
                   expired_folders, cutoff_date, err, before, removed, last, overlapped>>

\* Folders other code puts into the task root (ParameterConfig keeps "emails"
\* and "locks" there), or a user copies in under a hand-written name.
Foreign(name) == name.shape \in {"word", "ymd_hms_short"}

\* What such a folder holds: a folder under a hand-written task name is the
\* copy of a task folder, with part of the layout and the "logs" that
\* ParameterConfig keeps in a task folder.
ForeignContent(name) == IF name = Short THEN {"tmp", "logs"} ELSE {}

ForeignMkdir ==
    /\ \A p \in Procs : pc[p] = "idle"
    /\ Cardinality({n \in folders : Foreign(n)}) < MaxForeign
    /\ \E name \in {n \in Names : Foreign(n)} :
        /\ name \notin folders
        /\ fs' = [Makedirs(fs, name) EXCEPT ![name] = ForeignContent(name)]
    /\ UNCHANGED <<now, last, overlapped, config, pc, args, self, valid_folders, folders_to_delete,
                   expired_folders, cutoff_date, err, before, removed>>

\* ------------------------------------------------------- specification
Callers == {"p1"}

Step(p) ==
    \/ Setup(p)
    \/ ListAndSplit(p)
    \/ DeleteOldFolder(p)
    \/ FindExpired(p)
    \/ DeleteExpiredFolder(p)
    \/ RmtreeRaises(p)
    \/ SelectTask(p)
    \/ PersistConfig(p)
    \/ PersistKilled(p)
    \/ BuildLayout(p)
    \/ Return(p)

Next ==
    \/ Tick
    \/ ForeignMkdir
    \/ \E p \in Callers : Step(p)

Spec == Init /\ [][Next]_vars

\* ------------------------------------------------------- values of any kind
\* __init__ takes the values of data as they are (lines 55-58 and 64-67):
\* a caller can pass a negative limit, a negative number of days, or a
\* string that spells no number.
AnyExpiration == {PyNone, PyInt(-1), PyText}
AnyLimit == {PyNone, PyInt(-1), PyInt(MaxLimit)}

SetupAnyValue(p) ==
    /\ pc[p] = "idle"
    /\ \E e \in AnyExpiration, n \in AnyLimit, f \in Formats, r \in ResumeInputs :
        /\ args' = [args EXCEPT ![p] = [task_expiration_date |-> e, task_num_limit |-> n,
                                        task_folder_format |-> f, resume_task |-> r]]
        /\ before' = [before EXCEPT ![p] = [folders |-> folders, config |-> config, now |-> now]]
        /\ IF LoadRaises(config)
           THEN /\ pc' = [pc EXCEPT ![p] = "failed"]
                /\ err' = [err EXCEPT ![p] = "JSONDecodeError"]
                /\ UNCHANGED self
           ELSE /\ pc' = [pc EXCEPT ![p] = "clean"]
                /\ self' = [self EXCEPT ![p] =
                              [task_expiration_date |-> e, task_num_limit |-> n,
                               task_folder_format |-> EffectiveFormat(config, f),
                               curr_task |-> PyFalse]]
                /\ UNCHANGED err
    /\ overlapped' = Overlaps(p)
    /\ UNCHANGED <<now, last, fs, config, valid_folders, folders_to_delete, expired_folders,
                   cutoff_date, removed>>

NextAnyValue ==
    \/ Tick
    \/ ForeignMkdir
    \/ \E p \in Callers :
        \/ SetupAnyValue(p)
        \/ ListAndSplit(p)
        \/ DeleteOldFolder(p)
        \/ FindExpired(p)
        \/ DeleteExpiredFolder(p)
        \/ RmtreeRaises(p)
        \/ SelectTask(p)
        \/ PersistConfig(p)
        \/ PersistKilled(p)
        \/ BuildLayout(p)
        \/ Return(p)

SpecAnyValue == Init /\ [][NextAnyValue]_vars

\* ------------------------------------------------------- two processes
\* Two processes construct one TaskMgtAgent each on the same task root, with
\* nothing that serializes them: their steps interleave at every file
\* system call.  (One after the other is one of the interleavings.)  Each
\* passes no expiration or "0" days, and no limit or the largest one; both
\* calls fall within one tick of the clock.
RacingExpiration == {PyNone, PyStr(0)}
RacingLimit == {PyNone, PyInt(MaxLimit)}

SetupRacing(p) ==
    /\ pc[p] = "idle"
    /\ \E e \in RacingExpiration, n \in RacingLimit, f \in Formats, r \in ResumeInputs :
        /\ args' = [args EXCEPT ![p] = [task_expiration_date |-> e, task_num_limit |-> n,
                                        task_folder_format |-> f, resume_task |-> r]]
        /\ before' = [before EXCEPT ![p] = [folders |-> folders, config |-> config, now |-> now]]
        /\ IF LoadRaises(config)
           THEN /\ pc' = [pc EXCEPT ![p] = "failed"]
                /\ err' = [err EXCEPT ![p] = "JSONDecodeError"]
                /\ UNCHANGED self
           ELSE /\ pc' = [pc EXCEPT ![p] = "clean"]
                /\ self' = [self EXCEPT ![p] =
                              [task_expiration_date |-> e, task_num_limit |-> n,
                               task_folder_format |-> EffectiveFormat(config, f),
                               curr_task |-> PyFalse]]
                /\ UNCHANGED err
    /\ overlapped' = Overlaps(p)
    /\ UNCHANGED <<now, last, fs, config, valid_folders, folders_to_delete, expired_folders,
                   cutoff_date, removed>>

NextConcurrent ==
    \/ ForeignMkdir
    \/ \E p \in Procs :
        \/ SetupRacing(p)
        \/ ListAndSplit(p)
        \/ DeleteOldFolder(p)
        \/ FindExpired(p)
        \/ DeleteExpiredFolder(p)
        \/ RmtreeRaises(p)
        \/ SelectTask(p)
        \/ PersistConfig(p)
        \/ BuildLayout(p)

SpecConcurrent == Init /\ [][NextConcurrent]_vars

\* ------------------------------------------------------- a call made twice
\* The caller constructs TaskMgtAgent(task_folder_path, data) again with the
\* data of the call that has just returned: setup runs again from line 137 on
\* the task root and the record that call left.
Rerun(p) ==
    /\ pc[p] = "done"
    /\ ~last[p].ran
    /\ last' = [last EXCEPT ![p] = [ran |-> TRUE, curr_task |-> self[p].curr_task,
                                    cutoff_date |-> cutoff_date[p]]]
    /\ before' = [before EXCEPT ![p] = [folders |-> folders, config |-> config, now |-> now]]
    /\ IF LoadRaises(config)
       THEN /\ pc' = [pc EXCEPT ![p] = "failed"]
            /\ err' = [err EXCEPT ![p] = "JSONDecodeError"]
            /\ UNCHANGED self
       ELSE /\ pc' = [pc EXCEPT ![p] = "clean"]
            /\ self' = [self EXCEPT ![p] =
                          [task_expiration_date |-> args[p].task_expiration_date,
                           task_num_limit |-> args[p].task_num_limit,
                           task_folder_format |->
                               EffectiveFormat(config, args[p].task_folder_format),
                           curr_task |-> PyFalse]]
            /\ UNCHANGED err
    /\ valid_folders' = [valid_folders EXCEPT ![p] = <<>>]
    /\ folders_to_delete' = [folders_to_delete EXCEPT ![p] = <<>>]
    /\ expired_folders' = [expired_folders EXCEPT ![p] = <<>>]
    /\ cutoff_date' = [cutoff_date EXCEPT ![p] = Unset]
    /\ removed' = [removed EXCEPT ![p] = {}]
    /\ UNCHANGED <<now, fs, config, args, overlapped>>

NextRerun ==
    \/ Tick
    \/ ForeignMkdir
    \/ \E p \in Callers : Step(p) \/ Rerun(p)

SpecRerun == Init /\ [][NextRerun]_vars

\* ------------------------------------------------------- vocabulary of the claims
Returned(p) == pc[p] = "done"
Raised(p, e) == pc[p] = "failed" /\ err[p] = e
Ended(p) == pc[p] \in {"done", "failed"}

\* The call did not end for a reason outside _clean_old_tasks: an unreadable
\* record, a folder that could not be removed, a killed process.
NoOutsideFailure(p) == err[p] \notin {"JSONDecodeError", "OSError", "Killed"}

\* The task folders (names that parse under the format of the call) that were
\* in the task root when the call started, and those of them still there.
ParsedBefore(p) == {f \in before[p].folders : Parses(f, self[p].task_folder_format)}
Survivors(p) == ParsedBefore(p) \cap folders
Newer(p, f) == {g \in ParsedBefore(p) : g.t > f.t}

\* C1: a call that resumes a task folder ranking beyond the newest
\* task_num_limit >= 1 ones returns normally, the folder is still there and is
\* the current one, and no more than task_num_limit task folders remain.
C1_ResumeBeyondLimitSucceeds ==
    \A p \in Procs :
        LET R == args[p].resume_task
            N == args[p].task_num_limit
        IN  (/\ Ended(p) /\ NoOutsideFailure(p)
             /\ R # PyFalse /\ N # PyNone /\ N.v >= 1
             /\ R \in ParsedBefore(p)
             /\ Cardinality(Newer(p, R)) >= N.v)
            => /\ Returned(p)
               /\ R \in folders
               /\ self[p].curr_task = R
               /\ Cardinality(Survivors(p)) <= N.v

\* C2: with task_num_limit = N set, after the call at most N of the task
\* folders that were there before are left, the resumed folder not counted,
\* and the resumed folder is left whatever its rank.
C2_CountLimit ==
    \A p \in Procs :
        LET R == args[p].resume_task
            N == args[p].task_num_limit
        IN  (/\ Ended(p) /\ NoOutsideFailure(p)
             /\ N # PyNone
             /\ R # PyFalse => R \in ParsedBefore(p))
            => /\ Cardinality(Survivors(p) \ {R}) <= N.v
               /\ R # PyFalse => R \in folders

\* C3: with task_expiration_date set to any number of days, 0 included, after
\* the call no task folder older than the clock minus that many days is left
\* except the resumed one.  (Older than the cutoff taken at the start of the
\* call is older than the cutoff at any later reading of the clock; the
\* folder the call itself selects is left aside.)
C3_ExpiredAreGone ==
    \A p \in Procs :
        LET e == args[p].task_expiration_date
        IN  (Returned(p) /\ e # PyNone /\ ~IntRaises(e))
            => \A f \in folders \ {self[p].curr_task} :
                 (/\ Parses(f, self[p].task_folder_format)
                  /\ f.t < before[p].now - IntOf(e) * TicksPerDay)
                 => f = args[p].resume_task

\* C4: the folder a call has selected as current was not removed by that
\* call, and is there when the call returns.
C4_CurrentNeverRemoved ==
    \A p \in Procs :
        (pc[p] \in {"persist", "layout", "done"})
        => /\ self[p].curr_task \notin removed[p]
           /\ Returned(p) => self[p].curr_task \in folders

\* C5: a folder whose name does not parse under the format of the call is
\* never removed by the call, and is not counted: the count-limit step keeps
\* the newest task_num_limit of the folders that parse, however many others
\* the task root holds.
C5_UnparseableUntouched ==
    \A p \in Procs :
        (pc[p] \notin {"idle", "clean"} /\ ~Raised(p, "JSONDecodeError"))
        => /\ \A f \in removed[p] : Parses(f, self[p].task_folder_format)
           /\ \A f \in before[p].folders :
                ~Parses(f, self[p].task_folder_format) => f \in folders
           /\ \A f \in Range(valid_folders[p]) \cup Range(folders_to_delete[p]) :
                Parses(f, self[p].task_folder_format)
           /\ (self[p].task_num_limit # PyNone /\ ~Raised(p, "AssertionError"))
              => Len(valid_folders[p]) =
                   Min2(self[p].task_num_limit.v, Cardinality(ParsedBefore(p)))

\* Reached: a call with a limit returned, an unparseable folder stood in the
\* task root throughout, and the call removed a task folder.
C5_Witness ==
    \E p \in Procs :
        /\ Returned(p)
        /\ self[p].task_num_limit # PyNone
        /\ removed[p] # {}
        /\ \E f \in before[p].folders : ~Parses(f, self[p].task_folder_format)

\* C6 as stated: a call whose resume_task is not among the task folders whose
\* name parses (a folder of that name may be there, its name not parsing)
\* fails with the resume-target-not-found error.
C6_UnparsedResumeFails ==
    \A p \in Procs :
        (/\ pc[p] \notin {"idle", "clean"} /\ ~Raised(p, "JSONDecodeError")
         /\ args[p].resume_task # PyFalse
         /\ args[p].resume_task \notin ParsedBefore(p))
        => Raised(p, "AssertionError")

\* C6 amended: a call with resume_task set fails with the
\* resume-target-not-found error exactly when the task root holds no folder
\* of that name, whether or not the name parses.
C6_MissingResumeFails ==
    \A p \in Procs :
        (/\ pc[p] \notin {"idle", "clean"} /\ ~Raised(p, "JSONDecodeError")
         /\ args[p].resume_task # PyFalse)
        => (Raised(p, "AssertionError") <=> args[p].resume_task \notin before[p].folders)

\* Reached: a call failed for a resume target that is not in a task root
\* holding other folders.
C6_Witness ==
    \E p \in Procs :
        /\ Raised(p, "AssertionError")
        /\ args[p].resume_task # PyFalse
        /\ args[p].resume_task \notin before[p].folders
        /\ before[p].folders # {}

\* C7: when a call fails because the resume target is not found, the folders
\* of the task root and the record are what they were before the call: none
\* removed, none created, record untouched.
C7_FailedResumeChangesNothing ==
    \A p \in Procs :
        Raised(p, "AssertionError")
        => /\ folders = before[p].folders
           /\ removed[p] = {}
           /\ config = before[p].config

\* Reached: a call failed for its resume target while its limit and its
\* requested policy would have pruned the task root and changed the record.
C7_Witness ==
    \E p \in Procs :
        /\ Raised(p, "AssertionError")
        /\ before[p].config.state = "valid"
        /\ before[p].config.task_num_limit # args[p].task_num_limit
        /\ args[p].task_num_limit # PyNone
        /\ Cardinality(ParsedBefore(p)) > args[p].task_num_limit.v

\* C8: once a record exists, a call works with the format of the record
\* whatever format it requests: it parses names and names its new folder
\* with it, and the record it leaves holds the same format as the record it
\* found, so the format first written stays through every sequence of calls.
C8_PersistedFormatWins ==
    \A p \in Procs :
        (pc[p] # "idle" /\ before[p].config.state = "valid")
        => /\ self[p].task_folder_format = before[p].config.task_folder_format
           /\ config.state = "valid"
              => config.task_folder_format = before[p].config.task_folder_format
           /\ \A f \in Range(valid_folders[p]) \cup removed[p] :
                Parses(f, before[p].config.task_folder_format)
           /\ (pc[p] \in {"persist", "layout", "done"} /\ args[p].resume_task = PyFalse)
              => self[p].curr_task \in
                   {strftime(t, before[p].config.task_folder_format) : t \in Ticks}

\* Reached: a call that requested another format than the record's returned,
\* having created its folder and rewritten the record.
C8_Witness ==
    \E p \in Procs :
        /\ Returned(p)
        /\ before[p].config.state = "valid"
        /\ args[p].task_folder_format # before[p].config.task_folder_format
        /\ args[p].resume_task = PyFalse
        /\ self[p].curr_task \notin before[p].folders

\* C9: a record that is no valid JSON is treated as absent: the call does not
\* fail on it, works with the requested policy and leaves a valid record
\* holding that policy.
C9_CorruptRecordIsAbsent ==
    \A p \in Procs :
        (Ended(p) /\ before[p].config.state = "corrupt" /\ args[p].resume_task = PyFalse)
        => /\ ~Raised(p, "JSONDecodeError")
           /\ Returned(p) => config = ConfigData(args[p].task_expiration_date,
                                                 args[p].task_num_limit,
                                                 args[p].task_folder_format)

C11_RerunIsIdempotent ==
    \A p \in Procs :
        (last[p].ran /\ Returned(p) /\ args[p].task_expiration_date = PyNone)
        => /\ removed[p] = {}
           /\ args[p].resume_task # PyFalse => self[p].curr_task = last[p].curr_task
           /\ (args[p].resume_task = PyFalse /\ self[p].curr_task # last[p].curr_task)
              => self[p].curr_task \notin before[p].folders

\* C11 amended: a call made again with the same data after the first
\* returned.  With a task resumed and the cutoff not later than in the first
\* call, it removes no folder, is not ended by its resume target or by a
\* removal, and selects the same current folder.  With no task resumed, the
\* folder the first call created is one of the task folders the count limit
\* ranks, so that folders beyond the limit are removed again, and the current
\* folder is one that was not there exactly when now spells another name
\* than in the first call.
C11_RerunResumesSame ==
    \A p \in Procs :
        (last[p].ran /\ pc[p] # "idle")
        => /\ (args[p].resume_task # PyFalse /\ cutoff_date[p] <= last[p].cutoff_date)
              => /\ removed[p] = {}
                 /\ pc[p] \notin {"count_rm", "exp_rm"}
                 /\ err[p] \in {"", "Killed"}
                 /\ pc[p] \in {"persist", "layout", "done"}
                    => /\ self[p].curr_task = args[p].resume_task
                       /\ self[p].curr_task = last[p].curr_task
           /\ (args[p].resume_task = PyFalse /\ pc[p] # "clean")
              => /\ last[p].curr_task \in ParsedBefore(p)
                 /\ (Returned(p) /\ args[p].task_num_limit # PyNone)
                    => Cardinality(removed[p]) >=
                         Cardinality(ParsedBefore(p)) - args[p].task_num_limit.v
                 /\ Returned(p)
                    => (self[p].curr_task \notin before[p].folders
                        <=> self[p].curr_task # last[p].curr_task)

\* Reached: a call resuming a task, made again with a limit and an expiration
\* over a task root of several folders, returned.
C11_Witness ==
    \E p \in Procs :
        /\ last[p].ran
        /\ Returned(p)
        /\ args[p].resume_task # PyFalse
        /\ args[p].task_num_limit # PyNone
        /\ ExpirationRuns(args[p].task_expiration_date)
        /\ args[p].resume_task \in ParsedBefore(p)
        /\ Cardinality(before[p].folders) >= 2

\* No two folders of S spell the same point in time.
DistinctTimestamps(S) == \A f, g \in S : f.t = g.t => f = g

\* C12: a call with no resume and no expiration, with task_num_limit = N,
\* over a task root of n > N task folders of distinct timestamps removes
\* exactly the n - N oldest of them, leaves the N newest, and its current
\* folder comes on top of these: N + 1 task folders are there when it returns.
C12_CountLimitLeavesNPlusOne ==
    \A p \in Procs :
        LET N == args[p].task_num_limit
            n == Cardinality(ParsedBefore(p))
        IN  (/\ Returned(p)
             /\ args[p].resume_task = PyFalse
             /\ args[p].task_expiration_date = PyNone
             /\ N # PyNone
             /\ DistinctTimestamps(ParsedBefore(p))
             /\ n > N.v)
            => /\ Cardinality(removed[p]) = n - N.v
               /\ removed[p] \subseteq ParsedBefore(p)
               /\ \A f \in removed[p] : \A g \in ParsedBefore(p) \ removed[p] : f.t < g.t
               /\ Cardinality(ParsedBefore(p) \ removed[p]) = N.v
               /\ Cardinality({f \in folders : Parses(f, self[p].task_folder_format)})
                    = N.v + 1

\* C13: the expiration and the limit a call prunes with are those the caller
\* passed, whatever the record held, and when the call returns the record
\* holds exactly these two and the format the call worked with: the format of
\* the record it found, or the requested one where it found none.
C13_RecordHoldsEffectivePolicy ==
    \A p \in Procs :
        LET e == args[p].task_expiration_date
            N == args[p].task_num_limit
            f == IF before[p].config.state = "valid"
                 THEN before[p].config.task_folder_format
                 ELSE args[p].task_folder_format
        IN  /\ (pc[p] \notin {"idle", "clean"} /\ err[p] \notin {"JSONDecodeError", "AssertionError"})
               => /\ N # PyNone => Len(valid_folders[p]) <= N.v
                  /\ N = PyNone => Range(folders_to_delete[p]) = {}
                  /\ cutoff_date[p] # Unset
                     => /\ e # PyNone
                        /\ cutoff_date[p] \in {2 * (t - IntOf(e) * TicksPerDay) + m :
                                                  t \in Ticks, m \in {0, 1}}
                  /\ e = PyNone => removed[p] \cap Range(valid_folders[p]) = {}
            /\ Returned(p) => config = ConfigData(e, N, f)

\* Reached: a call returned that found a record differing from its request in
\* expiration, limit and format, and that removed a folder.
C13_Witness ==
    \E p \in Procs :
        /\ Returned(p)
        /\ before[p].config.state = "valid"
        /\ before[p].config.task_expiration_date # args[p].task_expiration_date
        /\ before[p].config.task_num_limit # args[p].task_num_limit
        /\ before[p].config.task_folder_format # args[p].task_folder_format
        /\ removed[p] # {}

\* Values the policy does not allow.
InvalidLimit(n) == n # PyNone /\ n.v < 0
InvalidExpiration(e) == e # PyNone /\ (IntRaises(e) \/ IntOf(e) < 0)

\* C14: a call that is passed a negative task_num_limit, or a
\* task_expiration_date that is no non-negative whole number, fails: it does
\* not return, and it removes no folder on the strength of such a value.
C14_InvalidValuesFail ==
    \A p \in Procs :
        (/\ pc[p] # "idle"
         /\ InvalidLimit(args[p].task_num_limit)
            \/ InvalidExpiration(args[p].task_expiration_date))
        => /\ ~Returned(p)
           /\ removed[p] = {}

\* The two grounds for removing a task folder f in the call p.
BeyondLimit(p, f) ==
    /\ args[p].task_num_limit # PyNone
    /\ Cardinality({g \in ParsedBefore(p) \ {f} : g.t >= f.t}) >= args[p].task_num_limit.v

OlderThanCutoff(p, f) ==
    /\ args[p].task_expiration_date # PyNone
    /\ \E micro \in {0, 1} :
         cutoff_date[p] =
           2 * (before[p].now - IntOf(args[p].task_expiration_date) * TicksPerDay) + micro
    /\ f \in Range(valid_folders[p])
    /\ 2 * f.t < cutoff_date[p]
    /\ f # args[p].resume_task

\* C15: a folder that was in the task root when a call started and that the
\* call has removed is a task folder that either ranks beyond the newest
\* task_num_limit ones (at least that many others are as new or newer), or
\* was kept by the count limit, is strictly older than the cutoff (the clock
\* as the call read it, less task_expiration_date days) and is not the
\* resumed one.  Every other folder, one exactly as
\* old as the cutoff included, is still there.
C15_NoOverDeletion ==
    \A p \in Procs :
        (pc[p] \notin {"idle", "clean"} /\ ~Raised(p, "JSONDecodeError"))
        => \A f \in before[p].folders :
             IF f \in removed[p]
             THEN /\ Parses(f, self[p].task_folder_format)
                  /\ BeyondLimit(p, f) \/ OlderThanCutoff(p, f)
             ELSE f \in folders

\* Reached: a call that removed a folder returned, and a task folder exactly
\* as old as its cutoff, not the resumed and not the current one, is there.
C15_Witness ==
    \E p \in Procs :
        /\ Returned(p)
        /\ removed[p] # {}
        /\ \E f \in (before[p].folders \cap folders)
                        \ {args[p].resume_task, self[p].curr_task} :
              /\ Parses(f, self[p].task_folder_format)
              /\ 2 * f.t = cutoff_date[p]

\* C16: the current folder of a call that resumes no task is a new one: no
\* folder of its name was in the task root when the call started (so that no
\* two such calls have the same current folder).
C16_CurrentIsNew ==
    \A p \in Procs :
        (pc[p] \in {"persist", "layout", "done"} /\ args[p].resume_task = PyFalse)
        => self[p].curr_task \notin before[p].folders

\* The policy the call p works with.
Policy(p) == ConfigData(self[p].task_expiration_date, self[p].task_num_limit,
                        self[p].task_folder_format)

\* C17: of two calls on one task root, a call that no other call overlaps
\* keeps the folder it resumes from the check of line 78 until it has built
\* the layout, and the record it has written holds its own policy until then;
\* calls that overlap can lose both (C17_Witness): the resumed folder is
\* removed by the other call, and the record holds the policy of the call
\* that wrote last.
C17_SerializedIsSafe ==
    \A p \in Procs :
        ~overlapped[p]
        => /\ (/\ pc[p] \in {"count_rm", "expire", "exp_rm", "select", "persist", "layout"}
               /\ args[p].resume_task # PyFalse)
              => args[p].resume_task \in folders
           /\ pc[p] = "layout" => config = Policy(p)

\* Reached: a call has selected the folder it resumes and written the record;
\* the folder is gone, removed by the other call after the check of line 78
\* had passed, and the record holds the other call's policy, written later.
C17_Witness ==
    \E p \in Procs : \E q \in Procs \ {p} :
        /\ overlapped[p]
        /\ pc[p] = "layout"
        /\ args[p].resume_task # PyFalse
        /\ self[p].curr_task = args[p].resume_task
        /\ args[p].resume_task \notin folders
        /\ args[p].resume_task \in removed[q]
        /\ pc[q] \in {"layout", "done"}
        /\ config = Policy(q)
        /\ Policy(q) # Policy(p)

\* The stages of a call and the steps that lead from one to the next.
Stage(at) ==
    CASE at = "idle" -> 0
      [] at = "clean" -> 1
      [] at = "count_rm" -> 2
      [] at = "expire" -> 3
      [] at = "exp_rm" -> 4
      [] at = "select" -> 5
      [] at = "persist" -> 6
      [] at = "layout" -> 7
      [] at = "done" -> 8
      [] OTHER -> 9

ComesNext(from, to) ==
    \/ to \in {"failed", from}
    \/ from = "idle" /\ to = "clean"
    \/ from = "clean" /\ to \in {"count_rm", "expire"}
    \/ from = "count_rm" /\ to = "expire"
    \/ from = "expire" /\ to \in {"exp_rm", "select"}
    \/ from = "exp_rm" /\ to = "select"
    \/ from = "select" /\ to = "persist"
    \/ from = "persist" /\ to = "layout"
    \/ from = "layout" /\ to = "done"
    \/ from \in {"done", "failed"} /\ to = "idle"

StepOrder(p) ==
    /\ ComesNext(pc[p], pc'[p])
    /\ (pc[p] # "idle" /\ pc'[p] \notin {"idle", "failed"}) => Stage(pc'[p]) >= Stage(pc[p])
    /\ valid_folders'[p] # valid_folders[p]
       => \/ pc'[p] = "idle"
          \/ self[p].task_folder_format \in Formats /\ removed[p] = {}
    /\ removed'[p] \ removed[p] # {}
       => /\ pc[p] \notin {"idle", "clean"}
          /\ self[p].curr_task = PyFalse /\ self'[p].curr_task = PyFalse
          /\ IF cutoff_date[p] = Unset
             THEN removed'[p] \ removed[p] \subseteq Range(folders_to_delete[p])
             ELSE /\ removed'[p] \ removed[p] \subseteq Range(expired_folders[p])
                  /\ folders_to_delete[p] = <<>>
    /\ (self'[p].curr_task # self[p].curr_task /\ pc'[p] # "idle")
       => /\ self[p].curr_task = PyFalse
          /\ folders_to_delete[p] = <<>> /\ expired_folders[p] = <<>>
          /\ config' = config
    /\ (config' # config /\ pc'[p] # pc[p])
       => /\ self[p].curr_task # PyFalse
          /\ fs' = fs
    /\ (fs' # fs /\ removed'[p] = removed[p] /\ self'[p] = self[p] /\ pc'[p] # pc[p])
       => /\ pc'[p] = "done"
          /\ config.state = "valid"
          /\ config.task_folder_format = self[p].task_folder_format

\* C18: the steps of one call come in one order.  The format is reconciled
\* before the task root is listed; a folder is removed only after the resume
\* check has passed and before the current folder is selected, the removals
\* of the count limit all before the cutoff is computed and those of the
\* expiration all after; the current folder is selected once, when nothing
\* is left to remove; the record is written only with the current folder
\* selected, and the layout is built after the record is written and ends the
\* call.  A call goes through the stages forward, skipping only the removals
\* it has no folder for.
C18_StepsInOrder == [][\A p \in Procs : StepOrder(p)]_vars

\* Reached: a call returned that removed one folder for the count limit and
\* another for the expiration.
C18_Witness ==
    \E p \in Procs :
        /\ Returned(p)
        /\ removed[p] \cap Range(valid_folders[p]) # {}
        /\ removed[p] \ Range(valid_folders[p]) # {}

\* C19: when a call returns, its current folder holds tmp, tmp/cache, var and
\* result.  Building the layout removes no folder of the task root and
\* nothing a folder holds, leaves every other folder as it is, adds to the
\* current folder the sub-folders of the layout it lacks and nothing else,
\* whether it held none, some or all of them, and building it again on the
\* result changes nothing.
C19_LayoutBuilt ==
    /\ [](\A p \in Procs :
            Returned(p) => /\ self[p].curr_task \in folders
                           /\ SubFolders \subseteq fs[self[p].curr_task])
    /\ [][\A p \in Procs :
            (pc[p] = "layout" /\ pc'[p] = "done")
            => LET c == self[p].curr_task
                   held == IF c \in folders THEN fs[c] ELSE {}
               IN  /\ DOMAIN fs' = folders \cup {c}
                   /\ \A f \in folders \ {c} : fs'[f] = fs[f]
                   /\ fs'[c] = held \cup {"tmp", "tmp/cache", "var", "result"}
                   /\ TaskFolderStruct(fs', c) = fs']_vars

\* Reached: a call returned that resumed a folder holding part of the layout
\* and logs; the folder holds the whole layout and the logs.
C19_Witness ==
    \E p \in Procs :
        /\ Returned(p)
        /\ args[p].resume_task # PyFalse
        /\ fs[self[p].curr_task] = {"tmp", "tmp/cache", "var", "result", "logs"}

\* C20: task_num_limit = 0 keeps none: a call with no resume and limit 0 that
\* returns has removed every task folder that was there when it started, and
\* the only task folder then in the task root is its current one, created by
\* the call.  With any limit set, no more than that many of the task folders
\* found are left by a call that returns; only with no limit (None) and no
\* expiration is every one of them left, however many there are.
C20_ZeroKeepsNone ==
    \A p \in Procs :
        LET N == args[p].task_num_limit
            fmt == self[p].task_folder_format
        IN  Returned(p)
            => /\ (N = PyInt(0) /\ args[p].resume_task = PyFalse)
                  => /\ removed[p] = {f \in before[p].folders : Parses(f, fmt)}
                     /\ {f \in folders : Parses(f, fmt)} = {self[p].curr_task}
                     /\ self[p].curr_task = strftime(now, fmt)
               /\ N # PyNone
                  => Cardinality({f \in before[p].folders : Parses(f, fmt)} \ removed[p]) <= N.v
               /\ (N = PyNone /\ args[p].task_expiration_date = PyNone)
                  => removed[p] = {}

\* Reached: a call with no resume and limit 0 returned, over a task root that
\* held several task folders and another folder.
C20_Witness ==
    \E p \in Procs :
        /\ Returned(p)
        /\ args[p].task_num_limit = PyInt(0)
        /\ args[p].resume_task = PyFalse
        /\ Cardinality(ParsedBefore(p)) >= 2
        /\ before[p].folders # ParsedBefore(p)

====
